---- MODULE Spec2Model ----
(***************************************************************************)
(* GirlfriendGPT (src/src/api.py): the service's construction, the        *)
(* free-tier check limit_exceeded, and the run_agent override that wraps   *)
(* every emit callback of the context so that text output is sanitized     *)
(* and followed by generated speech.                                       *)
(*                                                                         *)
(* Python strings are modelled as sequences of tokens ("" is <<>>), a      *)
(* Block as a record, an emit callback as [orig, depth]: the platform's    *)
(* callback orig under depth layers of wrap_emit's wrapper.                *)
(***************************************************************************)
EXTENDS Integers, Sequences, FiniteSets, TLC

VARIABLES config, service, history, metadata, emit_funcs, pc, turn,
          calls, invocations, delivered

vars == <<config, service, history, metadata, emit_funcs, pc, turn,
          calls, invocations, delivered>>

(* ------------------------------ bounds -------------------------------- *)

\* Longest batch the agent passes to an emit callback in one call.
MaxBatch == 2
\* Longest chat history (message count) considered.
MaxHistory == 12
\* Most run_agent calls that get to wrap the callbacks of one context.
MaxWraps == 2

(* ------------------------ program constants --------------------------- *)

MAX_FREE_MESSAGES == 5

(* ------------------------------ strings ------------------------------- *)

\* The tokens a text is made of: plain words, and markup the sanitizer strips.
Markup == {"<script>"}

\* tools.utils.clean_text: strips the artifacts unsuitable for the transport
\* and returns the cleaned text, possibly empty.
clean_text(text) == SelectSeq(text, LAMBDA tok : tok \notin Markup)

\* Python truthiness of a str: non-empty.
Truthy(s) == s # <<>>

(* ------------------------------ blocks -------------------------------- *)

\* Block(text=...): a text block.
TextBlock(t) == [kind |-> "text", text |-> t, from |-> <<>>, public |-> FALSE]

ImageBlock == [kind |-> "image", text |-> <<>>, from |-> <<>>, public |-> FALSE]

\* Variant of is_text that takes every block for text.
is_text_any(block) == TRUE

\* Block.is_text()
is_text(block) == block.kind = "text"

\* The texts the agent produces: markup only, plain, plain with markup.
AgentTexts == {<<"<script>">>, <<"hello">>, <<"hello", "<script>">>}

AgentBlocks == {TextBlock(t) : t \in AgentTexts} \cup {ImageBlock}

Batches == UNION {[1..n -> AgentBlocks] : n \in 0..MaxBatch}

\* The three fixed notices of limit_exceeded.
NoticeBlocks ==
    << TextBlock(<<"Thanks for trying out SachaGPT!">>),
       TextBlock(<<"Please deploy your own version GirlfriendGPT to continue chatting.">>),
       TextBlock(<<"Learn how on: https://github.com/EniasCailliau/GirlfriendGPT/">>) >>

(* --------------------------- configuration ---------------------------- *)

\* str fields are "" (<<>>) or a value; a required field may be absent.
Absent == <<"(absent)">>

RequiredFields == <<"bot_token", "name", "byline", "identity", "behavior">>

\* GenerateSpeechTool with its generator_plugin_config; None is NoTool.
NoTool == [tool |-> "None", voice_id |-> <<>>, elevenlabs_api_key |-> <<>>]

\* voice_tool(): always builds the tool, whatever the two credentials hold.
voice_tool(cfg) ==
    [tool |-> "GenerateSpeechTool",
     voice_id |-> cfg.elevenlabs_voice_id,
     elevenlabs_api_key |-> cfg.elevenlabs_api_key]

\* `if speech:` a Tool object is truthy, None is not.
ToolTruthy(speech) == speech.tool # "None"

(* ------------------------- the wrapped callback ----------------------- *)

\* Variant of BlockAt that walks the batch from its end.
BlockAt_reversed(blocks, i) == blocks[Len(blocks) + 1 - i]

\* `for block in blocks`: the i-th block of the loop.
BlockAt(blocks, i) == blocks[i]

\* Variant of ShouldEmit without the emptiness test.
ShouldEmit_always(text) == TRUE

\* `if text:`
ShouldEmit(text) == Truthy(text)

\* `if speech:`
ShouldSpeak(speech) == ToolTruthy(speech)

\* `block.text = text`: the block as emitted, mutated in place.
SanitizedBlock(block, text) == [block EXCEPT !.text = text]

\* `speech.run([block], context)[0]`: the audio block made from block.text.
speech_run(block) ==
    [kind |-> "audio", text |-> <<>>, from |-> block.text, public |-> FALSE]

\* Variant of PublicAudio that leaves the audio block private.
PublicAudio_unset(audio) == audio

\* `audio_block.set_public_data(True)`
PublicAudio(audio) == [audio EXCEPT !.public = TRUE]

\* The metadata the wrapper hands to emit_func: the one it was called with.
EmitMetadata(md) == md

\* `else: emit_func([block], metadata)`: what a non-text block is emitted as.
NonTextEmit(block) == <<block>>

\* Variant of SpeechFailurePropagates in which the wrapper catches the
\* exception of speech.run and goes on with the next block.
SpeechFailureCaught == FALSE

\* speech.run is called with no try/except around it: its exception leaves
\* the wrapper, the agent's loop and run_agent.
SpeechFailurePropagates == TRUE

\* One emission of the wrapper to its emit_func, caused by its i-th block.
Emission(blocks, md, i) == [blocks |-> blocks, metadata |-> md, cause |-> i]

\* The record of one finished (or raising) invocation of a wrapper.
\* blocks: the batch as received; out: the emissions to emit_func; synth: the
\* blocks speech.run was called for; failed: the block whose speech.run raised
\* (0: none); done: the blocks handled to the end; raised: left by an exception.
Invocation(f, d, md, acc, done, raised) ==
    [func |-> f, depth |-> d, blocks |-> acc.in, metadata |-> md,
     out |-> acc.out, synth |-> acc.synth, failed |-> acc.failed,
     done |-> done, raised |-> raised]

Leave(f, d, md, st, acc, done, raised) ==
    [st EXCEPT !.invocations = Append(@, Invocation(f, d, md, acc, done, raised)),
               !.raised = raised,
               !.ret = acc.cur]

RECURSIVE Call(_, _, _, _, _, _)
RECURSIVE wrapper(_, _, _, _, _, _, _)

\* One call of the callback [orig |-> f, depth |-> d] with (blocks, md).
\* Depth 0 is the platform's own callback, which delivers to the transport;
\* a deeper one is wrap_emit's wrapper around the callback one layer down.
\* st threads the deliveries, the invocations, the count of speech.run calls,
\* whether an exception is propagating, and the blocks as the call left them.
Call(f, d, blocks, md, env, st) ==
    IF d = 0
    THEN [st EXCEPT !.delivered =
                        Append(@, [func |-> f, blocks |-> blocks, metadata |-> md]),
                    !.ret = blocks]
    ELSE wrapper(f, d, md, env, st, 1,
                 [in |-> blocks, cur |-> blocks, out |-> <<>>, synth |-> <<>>,
                  failed |-> 0])

\* wrap_emit(emit_func).wrapper from its i-th block on; emit_func is the
\* callback [orig |-> f, depth |-> d - 1].
wrapper(f, d, md, env, st, i, acc) ==
    IF i > Len(acc.cur)
    THEN Leave(f, d, md, st, acc, Len(acc.cur), FALSE)
    ELSE
    LET block == BlockAt(acc.cur, i) IN
    IF is_text(block)
    THEN
      LET text == clean_text(block.text) IN
      IF ShouldEmit(text)
      THEN
        LET b1   == SanitizedBlock(block, text)
            s1   == Call(f, d - 1, <<b1>>, EmitMetadata(md), env, st)
            acc1 == [acc EXCEPT !.cur[i] = s1.ret[1],
                                !.out = Append(@, Emission(<<b1>>, EmitMetadata(md), i))]
        IN
        IF s1.raised
        THEN Leave(f, d, md, s1, acc1, i - 1, TRUE)
        ELSE IF ShouldSpeak(env.speech)
        THEN
          LET n    == s1.nspeech + 1
              s1n  == [s1 EXCEPT !.nspeech = n]
              acc2 == [acc1 EXCEPT !.synth = Append(@, i)]
          IN
          IF n = env.failAt
          THEN LET accf == [acc2 EXCEPT !.failed = IF @ = 0 THEN i ELSE @] IN
               IF SpeechFailurePropagates
               THEN Leave(f, d, md, s1n, accf, i - 1, TRUE)
               ELSE wrapper(f, d, md, env, s1n, i + 1, accf)
          ELSE
            LET audio == PublicAudio(speech_run(acc2.cur[i]))
                s2    == Call(f, d - 1, <<audio>>, EmitMetadata(md), env, s1n)
                acc3  == [acc2 EXCEPT
                            !.out = Append(@, Emission(<<audio>>, EmitMetadata(md), i))]
            IN
            IF s2.raised
            THEN Leave(f, d, md, s2, acc3, i - 1, TRUE)
            ELSE wrapper(f, d, md, env, s2, i + 1, acc3)
        ELSE wrapper(f, d, md, env, s1, i + 1, acc1)
      ELSE wrapper(f, d, md, env, st, i + 1, acc)
    ELSE
      LET s1   == Call(f, d - 1, NonTextEmit(block), EmitMetadata(md), env, st)
          acc1 == [acc EXCEPT
                     !.out = Append(@, Emission(NonTextEmit(block), EmitMetadata(md), i))]
      IN
      IF s1.raised
      THEN Leave(f, d, md, s1, acc1, i - 1, TRUE)
      ELSE wrapper(f, d, md, env, s1, i + 1, acc1)

\* wrap_emit(emit_func): the callback one layer above emit_func.
wrap_emit(emit_func) == [emit_func EXCEPT !.depth = @ + 1]

\* A caller handing one batch to each callback of funcs in turn, as
\* `for func in context.emit_funcs: func(blocks, metadata)` does; the batch is
\* one list object, so a later callback sees what an earlier one did to it.
RECURSIVE EmitAll(_, _, _, _, _, _, _)
EmitAll(funcs, k, blocks, md, env, st, top) ==
    IF k > Len(funcs) \/ st.raised
    THEN [st |-> st, calls |-> top]
    ELSE
      LET s1 == Call(funcs[k].orig, funcs[k].depth, blocks, md, env, st) IN
      EmitAll(funcs, k + 1, s1.ret, md, env, s1,
              Append(top, [func |-> funcs[k], blocks |-> blocks, metadata |-> md]))

Start == [delivered |-> <<>>, invocations |-> <<>>, nspeech |-> 0,
          raised |-> FALSE, ret |-> <<>>]

(* ------------------------------ the quota ----------------------------- *)

\* Variant of limit_exceeded with a floor division (len(messages) // 2).
limit_exceeded_floor(cfg, c) ==
    /\ "chat_ids" \in DOMAIN cfg
    /\ Truthy(cfg.chat_ids)
    /\ c \div 2 > MAX_FREE_MESSAGES

\* Variant of limit_exceeded that does not look at the allowlist.
limit_exceeded_any_config(cfg, c) == c > 2 * MAX_FREE_MESSAGES

\* limit_exceeded's condition. `len(messages) / 2 > MAX_FREE_MESSAGES` is a
\* true division: c / 2 > 5 exactly when c > 10.
limit_exceeded(cfg, c) ==
    /\ "chat_ids" \in DOMAIN cfg
    /\ Truthy(cfg.chat_ids)
    /\ c > 2 * MAX_FREE_MESSAGES

(* ---------------------------- construction ---------------------------- *)

\* The first name of each replacement field of SYSTEM_PROMPT, in order:
\* {self.name}, {self.byline}, {identity_str}, {behavior_str}.
PromptFields == <<"self", "self", "identity_str", "behavior_str">>

\* The keyword arguments __init__ passes to SYSTEM_PROMPT.format.
FormatArgs(cfg) ==
    [k \in {"name", "byline", "identity", "behavior"} |-> cfg[k]]

\* str.format: every replacement field is looked up among the keyword
\* arguments; the first one missing raises KeyError.
format(fields, kwargs) ==
    LET missing == {k \in 1..Len(fields) : fields[k] \notin DOMAIN kwargs} IN
    IF missing # {}
    THEN [ok |-> FALSE,
          key |-> fields[CHOOSE k \in missing : \A j \in missing : k <= j],
          value |-> <<>>]
    ELSE [ok |-> TRUE, key |-> "",
          value |-> [k \in 1..Len(fields) |-> kwargs[fields[k]]]]

\* The required fields of GirlFriendGPTConfig (no default) that cfg lacks.
MissingFields(cfg) ==
    {k \in 1..Len(RequiredFields) : cfg[RequiredFields[k]] = Absent}

Unbuilt == [status |-> "unbuilt", error |-> <<>>, model_name |-> "",
            prompt |-> <<>>, mixins |-> <<>>]

USED_MIXIN_CLASSES ==
    <<"SteamshipWidgetTransport", "TelegramTransport", "IndexerPipelineMixin">>

\* GirlfriendGPT.__init__: the configuration is validated by the base class,
\* the agent is built, its prompt formatted, the three mixins added. An
\* exception at any point leaves no instance.
init(cfg) ==
    LET missing == MissingFields(cfg)
        prompt  == format(PromptFields, FormatArgs(cfg))
    IN
    IF missing # {}
    THEN [Unbuilt EXCEPT
            !.status = "failed",
            !.error = <<"ValidationError",
                        RequiredFields[CHOOSE k \in missing : \A j \in missing : k <= j]>>]
    ELSE IF ~prompt.ok
    THEN [Unbuilt EXCEPT !.status = "failed", !.error = <<"KeyError", prompt.key>>]
    ELSE [status |-> "running", error |-> <<>>,
          model_name |-> IF cfg.use_gpt4 THEN "gpt-4" ELSE "gpt-3.5-turbo",
          prompt |-> prompt.value,
          mixins |-> USED_MIXIN_CLASSES]

(* ------------------------------- state -------------------------------- *)

\* Configurations of a deployed instance: the persona is set, the allowlist
\* and the two voice credentials are each empty or set.
Persona ==
    [bot_token |-> <<"token">>, name |-> <<"Sacha">>, byline |-> <<"byline">>,
     identity |-> <<"identity">>, behavior |-> <<"behavior">>, use_gpt4 |-> TRUE]

Config(p, ids, key, voice) ==
    [bot_token |-> p.bot_token, name |-> p.name, byline |-> p.byline,
     identity |-> p.identity, behavior |-> p.behavior, use_gpt4 |-> p.use_gpt4,
     chat_ids |-> ids, elevenlabs_api_key |-> key, elevenlabs_voice_id |-> voice]

Configs ==
    {Config(Persona, ids, key, voice) :
        ids \in {<<>>, <<"1234">>}, key \in {<<>>, <<"key">>},
        voice \in {<<>>, <<"voice">>}}

\* The contexts the platform builds for a turn: the callbacks of the
\* transports that deliver it, and the metadata it passes to them.
Contexts ==
    {[emit_funcs |-> <<"telegram">>, metadata |-> "chat-1"],
     [emit_funcs |-> <<"widget", "telegram">>, metadata |-> "chat-2"]}

Original(f) == [orig |-> f, depth |-> 0]

\* Which call of speech.run raises, counted within one step (0: none does).
FailChoices == {0, 1, 2}

NoTurn == [outcome |-> "none", agent_invoked |-> FALSE, entry |-> <<>>]

\* limit_exceeded and run_agent are analysed as methods of an instance that
\* holds a valid self.config, on a context the platform has built: its
\* callbacks are the transports' own, its history has any length. How
\* __init__ ends is analysed apart, under SpecStartup. calls, invocations and
\* delivered record what the latest step emitted.
Init ==
    /\ config \in Configs
    /\ service = Unbuilt
    /\ history \in 0..MaxHistory
    /\ \E ctx \in Contexts :
         /\ metadata = ctx.metadata
         /\ emit_funcs = [k \in 1..Len(ctx.emit_funcs) |-> Original(ctx.emit_funcs[k])]
    /\ pc = "idle"
    /\ turn = NoTurn
    /\ calls = <<>>
    /\ invocations = <<>>
    /\ delivered = <<>>

(* ------------------------------ actions ------------------------------- *)

\* The platform appends a message (the user's, the agent's) to the history.
AppendMessage ==
    /\ pc = "idle"
    /\ history < MaxHistory
    /\ history' = history + 1
    /\ turn' = NoTurn
    /\ calls' = <<>>
    /\ invocations' = <<>>
    /\ delivered' = <<>>
    /\ UNCHANGED <<config, service, metadata, emit_funcs, pc>>

\* run_agent up to its call of super().run_agent: the quota branch emits the
\* notices through context.emit_funcs as it finds them and returns; otherwise
\* every callback of the context is replaced by its wrapper.
RunAgent ==
    /\ pc = "idle"
    /\ \E failAt \in FailChoices :
         LET env == [speech |-> voice_tool(config), failAt |-> failAt]
             r   == EmitAll(emit_funcs, 1, NoticeBlocks, metadata, env, Start, <<>>)
         IN
         IF limit_exceeded(config, history)
         THEN /\ calls' = r.calls
              /\ invocations' = r.st.invocations
              /\ delivered' = r.st.delivered
              /\ turn' = [outcome |-> IF r.st.raised THEN "raised" ELSE "limited",
                          agent_invoked |-> FALSE, entry |-> emit_funcs]
              /\ UNCHANGED <<emit_funcs, pc>>
         ELSE /\ \A k \in 1..Len(emit_funcs) : emit_funcs[k].depth < MaxWraps
              /\ emit_funcs' = [k \in 1..Len(emit_funcs) |-> wrap_emit(emit_funcs[k])]
              /\ pc' = "agent"
              /\ turn' = [outcome |-> "running", agent_invoked |-> TRUE,
                          entry |-> emit_funcs]
              /\ calls' = <<>>
              /\ invocations' = <<>>
              /\ delivered' = <<>>
    /\ UNCHANGED <<config, service, history, metadata>>

\* Inside super().run_agent: the agent hands one batch to every callback of
\* context.emit_funcs. An exception raised below ends the turn.
AgentEmit ==
    /\ pc = "agent"
    /\ \E batch \in Batches, failAt \in FailChoices :
         LET env == [speech |-> voice_tool(config), failAt |-> failAt]
             r   == EmitAll(emit_funcs, 1, batch, metadata, env, Start, <<>>)
         IN
         /\ calls' = r.calls
         /\ invocations' = r.st.invocations
         /\ delivered' = r.st.delivered
         /\ pc' = IF r.st.raised THEN "idle" ELSE "emitted"
         /\ turn' = [turn EXCEPT !.outcome = IF r.st.raised THEN "raised" ELSE @]
    /\ UNCHANGED <<config, service, history, metadata, emit_funcs>>

\* The agent goes on after an emission, to emit again or to return.
AgentContinue ==
    /\ pc = "emitted"
    /\ pc' = "agent"
    /\ calls' = <<>>
    /\ invocations' = <<>>
    /\ delivered' = <<>>
    /\ UNCHANGED <<config, service, history, metadata, emit_funcs, turn>>

\* super().run_agent returns, and run_agent with it.
AgentReturn ==
    /\ pc \in {"agent", "emitted"}
    /\ pc' = "idle"
    /\ turn' = [turn EXCEPT !.outcome = "returned"]
    /\ calls' = <<>>
    /\ invocations' = <<>>
    /\ delivered' = <<>>
    /\ UNCHANGED <<config, service, history, metadata, emit_funcs>>

Next == RunAgent \/ AgentEmit \/ AgentContinue \/ AgentReturn \/ AppendMessage

Spec == Init /\ [][Next]_vars

\* Construction, for every configuration the platform may hand to __init__.
StartupConfigs ==
    {Config(p, ids, key, <<>>) :
        p \in [bot_token : {Absent, <<"token">>}, name : {Absent, <<"Sacha">>},
               byline : {Absent, <<"byline">>}, identity : {Absent, <<"identity">>},
               behavior : {Absent, <<"behavior">>}, use_gpt4 : BOOLEAN],
        ids \in {<<>>, <<"1234">>}, key \in {<<>>, <<"key">>}}

StartupInit ==
    /\ config \in StartupConfigs
    /\ service = Unbuilt
    /\ history = 0
    /\ metadata = "chat-1"
    /\ emit_funcs = <<>>
    /\ pc = "idle"
    /\ turn = NoTurn
    /\ calls = <<>>
    /\ invocations = <<>>
    /\ delivered = <<>>

Construct ==
    /\ service.status = "unbuilt"
    /\ service' = init(config)
    /\ UNCHANGED <<config, history, metadata, emit_funcs, pc, turn,
                   calls, invocations, delivered>>

StartupNext == Construct

SpecStartup == StartupInit /\ [][StartupNext]_vars

(* ------------------------------ claims -------------------------------- *)

\* In every state with turn.outcome # "none", history, config and metadata
\* are those the turn was entered with (AppendMessage opens a new turn), and
\* turn.entry is context.emit_funcs as run_agent found it.

InTurn == turn.outcome # "none"

AllowlistConfigured == config.chat_ids # <<>>

\* c / 2 > 5 for the message count c of the turn.
OverQuota == history > 2 * 5

Range(seq) == {seq[k] : k \in 1..Len(seq)}

\* The call that hands the three notices to callback func.
NoticeCall(func) == [func |-> func, blocks |-> NoticeBlocks, metadata |-> metadata]

FreshEntry == \A k \in 1..Len(turn.entry) : turn.entry[k].depth = 0

\* C1: in a turn with an allowlist configured and c / 2 > 5 the agent is never
\* invoked and the callbacks are left as they were; the only calls made are
\* one call per callback of the context, in order, each with the batch of the
\* three notices and the context's metadata, and every callback gets its call
\* unless a callback raised before. When the callbacks are the platform's own,
\* what reaches the transport is exactly these batches: no sanitized copy, no
\* audio.
C1_QuotaTurnEmitsOnlyNotices ==
    (InTurn /\ AllowlistConfigured /\ OverQuota) =>
        /\ ~turn.agent_invoked
        /\ turn.outcome \in {"limited", "raised"}
        /\ pc = "idle"
        /\ emit_funcs = turn.entry
        /\ Len(calls) <= Len(turn.entry)
        /\ \A k \in 1..Len(calls) : calls[k] = NoticeCall(turn.entry[k])
        /\ (turn.outcome = "limited" => Len(calls) = Len(turn.entry))
        /\ FreshEntry =>
             /\ turn.outcome = "limited"
             /\ invocations = <<>>
             /\ delivered = [k \in 1..Len(turn.entry) |->
                               [func |-> turn.entry[k].orig, blocks |-> NoticeBlocks,
                                metadata |-> metadata]]

\* C1's case: 12 messages, an allowlist, two callbacks, each handed the notices.
C1_Witness ==
    /\ turn.outcome = "limited"
    /\ AllowlistConfigured
    /\ history = 12
    /\ Len(turn.entry) = 2
    /\ Len(delivered) = 2
    /\ delivered[2].blocks = NoticeBlocks

\* C2: in a turn with no allowlist configured, or with c / 2 <= 5, no notice
\* is emitted and the agent is invoked with every callback of the context
\* replaced by a wrapper of it, in the same order.
C2_NoQuotaBranchOtherwise ==
    (InTurn /\ (~AllowlistConfigured \/ ~OverQuota)) =>
        /\ turn.agent_invoked
        /\ turn.outcome \in {"running", "returned", "raised"}
        /\ Len(emit_funcs) = Len(turn.entry)
        /\ \A k \in 1..Len(emit_funcs) :
             emit_funcs[k] = [orig |-> turn.entry[k].orig,
                              depth |-> turn.entry[k].depth + 1]
        /\ \A k \in 1..Len(calls) : Range(calls[k].blocks) \cap Range(NoticeBlocks) = {}
        /\ \A k \in 1..Len(delivered) :
             Range(delivered[k].blocks) \cap Range(NoticeBlocks) = {}

\* C2's case: 8 messages with an allowlist, the agent's output delivered.
C2_Witness ==
    /\ AllowlistConfigured
    /\ history = 8
    /\ turn.agent_invoked
    /\ pc = "emitted"
    /\ delivered # <<>>

\* The other case of C2: no allowlist, a history over the cap, the agent run.
C2_WitnessNoAllowlist ==
    /\ ~AllowlistConfigured
    /\ history = 12
    /\ turn.agent_invoked
    /\ pc = "emitted"
    /\ delivered # <<>>

\* The emissions invocation inv made for its i-th block.
OutFor(inv, i) == SelectSeq(inv.out, LAMBDA e : e.cause = i)

\* Whether block b is a text block whose sanitized form is non-empty.
SanitizesNonEmpty(b) == b.kind = "text" /\ clean_text(b.text) # <<>>

\* The emission of block b of invocation inv with its text sanitized.
SanitizedEmission(inv, i) ==
    [blocks |-> <<[inv.blocks[i] EXCEPT !.text = clean_text(@)]>>,
     metadata |-> inv.metadata, cause |-> i]

\* The emission of the audio synthesized from the sanitized text of block i.
AudioEmission(inv, i) ==
    [blocks |-> <<[kind |-> "audio", text |-> <<>>,
                   from |-> clean_text(inv.blocks[i].text), public |-> TRUE]>>,
     metadata |-> inv.metadata, cause |-> i]

VoiceCredentialsEmpty ==
    config.elevenlabs_api_key = <<>> /\ config.elevenlabs_voice_id = <<>>

\* C3: with the two voice credentials left empty no speech tool is present,
\* and a text block with a non-empty sanitized form makes the wrapper emit
\* exactly one message, the sanitized text, and no audio.
C3_NoVoiceCredentialsNoAudio ==
    VoiceCredentialsEmpty =>
        \A n \in 1..Len(invocations) :
            LET inv == invocations[n] IN
            \A i \in 1..inv.done :
                SanitizesNonEmpty(inv.blocks[i]) =>
                    /\ OutFor(inv, i) = <<SanitizedEmission(inv, i)>>
                    /\ i \notin Range(inv.synth)

\* C4: with a speech tool, a text block with a non-empty sanitized form that
\* the wrapper handles to the end makes it emit exactly two messages, in two
\* calls: the block with its text sanitized, then the audio synthesized from
\* the sanitized text, marked public. And an audio block the wrapper made is
\* only ever emitted for a text block with a non-empty sanitized form.
C4_TextThenPublicAudio ==
    \A n \in 1..Len(invocations) :
        LET inv == invocations[n] IN
        /\ \A i \in 1..inv.done :
             (SanitizesNonEmpty(inv.blocks[i]) /\ ToolTruthy(voice_tool(config))) =>
                 OutFor(inv, i) = <<SanitizedEmission(inv, i), AudioEmission(inv, i)>>
        /\ \A k \in 1..Len(inv.out) :
             LET e == inv.out[k] IN
             (e.blocks[1].kind = "audio" /\ inv.blocks[e.cause].kind # "audio") =>
                 /\ SanitizesNonEmpty(inv.blocks[e.cause])
                 /\ e.blocks[1].from = clean_text(inv.blocks[e.cause].text)
                 /\ k > 1
                 /\ inv.out[k - 1] = SanitizedEmission(inv, e.cause)

\* C4's case: "hello <script>" handed to the wrapper of the telegram callback,
\* which receives "hello" and then the public audio made from "hello".
C4_Witness ==
    /\ pc = "emitted"
    /\ \E n \in 1..Len(invocations) :
         /\ invocations[n].depth = 1
         /\ invocations[n].blocks = <<TextBlock(<<"hello", "<script>">>)>>
    /\ delivered =
         << [func |-> "telegram", blocks |-> <<TextBlock(<<"hello">>)>>,
             metadata |-> metadata],
            [func |-> "telegram",
             blocks |-> <<[kind |-> "audio", text |-> <<>>, from |-> <<"hello">>,
                           public |-> TRUE]>>,
             metadata |-> metadata] >>

\* C5: a text block whose sanitized form is empty makes the wrapper emit
\* nothing and synthesize nothing, with or without a speech tool.
C5_EmptySanitizedDropped ==
    \A n \in 1..Len(invocations) :
        LET inv == invocations[n] IN
        \A i \in 1..Len(inv.blocks) :
            (inv.blocks[i].kind = "text" /\ clean_text(inv.blocks[i].text) = <<>>) =>
                /\ OutFor(inv, i) = <<>>
                /\ i \notin Range(inv.synth)

\* C5's case: a batch of a markup-only text and an image, handled to the end:
\* only the image is emitted.
C5_Witness ==
    \E n \in 1..Len(invocations) :
        LET inv == invocations[n] IN
        /\ inv.blocks = <<TextBlock(<<"<script>">>), ImageBlock>>
        /\ inv.done = 2
        /\ Len(inv.out) = 1
        /\ inv.out[1].cause = 2

\* C6: a non-text block that the wrapper handles makes it emit exactly one
\* message, the block itself, unchanged, with the metadata it was called
\* with; nothing is synthesized for it.
C6_NonTextPassedThrough ==
    \A n \in 1..Len(invocations) :
        LET inv == invocations[n] IN
        \A i \in 1..inv.done :
            inv.blocks[i].kind # "text" =>
                /\ OutFor(inv, i) =
                     <<[blocks |-> <<inv.blocks[i]>>, metadata |-> inv.metadata,
                        cause |-> i]>>
                /\ i \notin Range(inv.synth)

\* C6's case: an image handed to a wrapper and delivered to the transport.
C6_Witness ==
    /\ pc = "emitted"
    /\ \E n \in 1..Len(invocations) :
         /\ invocations[n].blocks = <<ImageBlock>>
         /\ invocations[n].done = 1
    /\ \E k \in 1..Len(delivered) : delivered[k].blocks = <<ImageBlock>>

\* What one block of a batch is to be emitted as: nothing for a text that
\* sanitizes to nothing, the sanitized text and then its audio for another
\* text, the block itself for a non-text.
ExpectedFor(inv, i) ==
    IF inv.blocks[i].kind = "text"
    THEN IF clean_text(inv.blocks[i].text) = <<>>
         THEN <<>>
         ELSE <<SanitizedEmission(inv, i), AudioEmission(inv, i)>>
    ELSE <<[blocks |-> <<inv.blocks[i]>>, metadata |-> inv.metadata, cause |-> i]>>

RECURSIVE ExpectedOut(_, _)
ExpectedOut(inv, i) ==
    IF i > Len(inv.blocks) THEN <<>> ELSE ExpectedFor(inv, i) \o ExpectedOut(inv, i + 1)

IsPrefix(s, t) == Len(s) <= Len(t) /\ s = SubSeq(t, 1, Len(s))

\* The deliveries to the transport of an invocation at depth 1: its emissions,
\* as calls of the callback it wraps.
Deliveries(inv) ==
    [k \in 1..Len(inv.out) |->
        [func |-> inv.func, blocks |-> inv.out[k].blocks,
         metadata |-> inv.out[k].metadata]]

RECURSIVE Concat(_, _)
Concat(seqs, k) == IF k > Len(seqs) THEN <<>> ELSE seqs[k] \o Concat(seqs, k + 1)

\* C7: the emissions of a wrapper for a batch are the concatenation, in the
\* order of the batch, of what each block is to be emitted as, each with the
\* metadata the wrapper was called with: all of it when the wrapper returns,
\* a prefix of it when an exception cut it short. With each callback wrapped
\* once, what reaches the transport is these emissions, callback by callback.
C7_BatchOrderKept ==
    /\ \A n \in 1..Len(invocations) :
         LET inv == invocations[n] IN
         /\ IsPrefix(inv.out, ExpectedOut(inv, 1))
         /\ ~inv.raised => inv.out = ExpectedOut(inv, 1)
    /\ (pc = "emitted" /\ \A k \in 1..Len(emit_funcs) : emit_funcs[k].depth = 1) =>
         /\ Len(invocations) = Len(emit_funcs)
         /\ \A k \in 1..Len(emit_funcs) :
              /\ invocations[k].func = emit_funcs[k].orig
              /\ invocations[k].blocks = calls[k].blocks
              /\ invocations[k].metadata = metadata
         /\ delivered = Concat([k \in 1..Len(invocations) |-> Deliveries(invocations[k])], 1)

\* C7's case: [text("hello <script>"), image] through the wrapper of the
\* telegram callback gives text("hello"), audio from "hello", image.
C7_Witness ==
    /\ pc = "emitted"
    /\ Len(calls) = 1
    /\ calls[1].blocks = <<TextBlock(<<"hello", "<script>">>), ImageBlock>>
    /\ calls[1].func = [orig |-> "telegram", depth |-> 1]
    /\ Len(delivered) = 3
    /\ delivered[1].blocks = <<TextBlock(<<"hello">>)>>
    /\ delivered[2].blocks =
         <<[kind |-> "audio", text |-> <<>>, from |-> <<"hello">>, public |-> TRUE]>>
    /\ delivered[3].blocks = <<ImageBlock>>

\* C8 as claimed: when speech.run raises for a block, its sanitized text is
\* delivered and its audio is not, the blocks after it are emitted as they
\* are to be, and the turn does not fail.
C8_SpeechFailureIsRecoverable ==
    \A n \in 1..Len(invocations) :
        LET inv == invocations[n] IN
        inv.failed # 0 =>
            /\ OutFor(inv, inv.failed) = <<SanitizedEmission(inv, inv.failed)>>
            /\ \A j \in (inv.failed + 1)..Len(inv.blocks) :
                 inv.blocks[j].kind # "text" => OutFor(inv, j) # <<>>
            /\ turn.outcome # "raised"

\* C8 amended: when speech.run raises for a block, its sanitized text has been
\* delivered and its audio is not, but the exception leaves the wrapper:
\* nothing is emitted for the blocks after it, and the turn fails.
C8_SpeechFailureEndsTurn ==
    \A n \in 1..Len(invocations) :
        LET inv == invocations[n] IN
        inv.failed # 0 =>
            /\ OutFor(inv, inv.failed) = <<SanitizedEmission(inv, inv.failed)>>
            /\ inv.out[Len(inv.out)] = SanitizedEmission(inv, inv.failed)
            /\ \A j \in (inv.failed + 1)..Len(inv.blocks) : OutFor(inv, j) = <<>>
            /\ inv.raised
            /\ inv.done = inv.failed - 1
            /\ turn.outcome = "raised"
            /\ pc = "idle"

\* C8's case: speech.run raises for the first of two blocks handed by the
\* agent; the image after it is never delivered.
C8_Witness ==
    /\ turn.agent_invoked
    /\ turn.outcome = "raised"
    /\ \E n \in 1..Len(invocations) :
         /\ invocations[n].failed = 1
         /\ invocations[n].blocks = <<TextBlock(<<"hello">>), ImageBlock>>
    /\ Len(delivered) = 1
    /\ delivered[1].blocks = <<TextBlock(<<"hello">>)>>

\* The deliveries of the step to original callback f whose block is of kind.
DeliveredTo(f, kind) ==
    SelectSeq(delivered, LAMBDA d : d.func = f /\ d.blocks[1].kind = kind)

\* C9: the callback list keeps its length and order over any number of
\* turns on the context, and for each batch the agent hands over, every
\* original callback receives exactly one text delivery per text block with a
\* non-empty sanitized form, and at most one audio delivery per such block.
C9_WrappersNeverStack ==
    /\ InTurn =>
         /\ Len(emit_funcs) = Len(turn.entry)
         /\ \A k \in 1..Len(emit_funcs) : emit_funcs[k].orig = turn.entry[k].orig
    /\ (pc = "emitted") =>
         \A k \in 1..Len(calls) :
            LET texts == SelectSeq(calls[k].blocks, SanitizesNonEmpty) IN
            /\ Len(DeliveredTo(calls[k].func.orig, "text")) = Len(texts)
            /\ Len(DeliveredTo(calls[k].func.orig, "audio")) <= Len(texts)

\* C10: once __init__ has run on a configuration, it has failed only if a
\* required field is absent; with all of them present the instance is
\* running, its prompt is built from the configured name, byline, identity
\* and behavior, and the widget transport, the Telegram transport and the
\* indexer mixin are registered.
C10_StartupSucceedsWithRequiredFields ==
    service.status # "unbuilt" =>
        /\ service.status = "failed" =>
             \E k \in 1..Len(RequiredFields) : config[RequiredFields[k]] = Absent
        /\ (\A k \in 1..Len(RequiredFields) : config[RequiredFields[k]] # Absent) =>
             /\ service.status = "running"
             /\ service.prompt =
                  <<config.name, config.byline, config.identity, config.behavior>>
             /\ service.mixins =
                  <<"SteamshipWidgetTransport", "TelegramTransport",
                    "IndexerPipelineMixin">>

====
